---- MODULE Spec2Model ----
(***************************************************************************)
(* spritebake: stitch_spritesheet (src/spritebake.py) as a state machine.  *)
(*                                                                         *)
(* An image is a record [w, h, px]: px is the row-major sequence of its    *)
(* RGBA pixels, pixel (x, y) at px[y * w + x + 1]; a pixel is the tuple    *)
(* <<r, g, b, a>> of 8-bit channels.                                       *)
(*                                                                         *)
(* Environment assumptions (outside src/): the frame files decode, the     *)
(* output path is writable, new_session() returns, and a failing           *)
(* Segmenter call raises an inference error, which is not an ImportError.  *)
(***************************************************************************)
EXTENDS Integers, Sequences, FiniteSets, TLC

(***************************************************************************)
(* Bounds of the model                                                     *)
(***************************************************************************)
MaxFrames == 3        \* frame files of a pipeline run (Spec)
MaxPackFrames == 5    \* frames packed in SpecPack
MaxCols == 3          \* explicit --cols in SpecPack
MaxDim == 2           \* frame width and height in SpecPack
MaxPixels == 7        \* pixels of a classified frame in SpecClassify
MaxJobs == 8          \* removal jobs in SpecWorkers
MaxHw == 8            \* os.cpu_count() in SpecWorkers

None == 0             \* Python's None for cols, target_size, os.cpu_count()

(***************************************************************************)
(* Pixels and images                                                       *)
(***************************************************************************)
Clear == <<0, 0, 0, 0>>          \* the (0, 0, 0, 0) fill of Image.new
Red == <<200, 0, 0, 255>>
Blue == <<0, 0, 200, 255>>
Haze == <<200, 100, 50, 100>>    \* neither opaque (> 128) nor clear (< 10)

Palette == {Clear, Red, Blue, Haze}

Min(a, b) == IF a < b THEN a ELSE b

Max(a, b) == IF a > b THEN a ELSE b

Abs(a) == IF a < 0 THEN -a ELSE a

PixelAt(img, x, y) == img.px[y * img.w + x + 1]

\* Image.new('RGBA', size, (0, 0, 0, 0))
ImageNew(w, h) == [w |-> w, h |-> h, px |-> [k \in 1..(w * h) |-> Clear]]

(***************************************************************************)
(* FrameClassifier                                                         *)
(***************************************************************************)
IsOpaque(p) == p[4] > 128

IsClear(p) == p[4] < 10

\* np.any(diff > 20, axis=2) against the top-left pixel's RGB
Differs(p, bg) == \E c \in 1..3 : Abs(p[c] - bg[c]) > 20

\* np.sum(alpha > 128), np.sum(alpha < 10), np.sum(np.any(diff > 20, axis=2))
CountOpaque(img) == Cardinality({k \in 1..(img.w * img.h) : IsOpaque(img.px[k])})

CountClear(img) == Cardinality({k \in 1..(img.w * img.h) : IsClear(img.px[k])})

CountDiffers(img, bg) == Cardinality({k \in 1..(img.w * img.h) : Differs(img.px[k], bg)})

\* ratio comparisons against threshold = 0.001 are kept exact:
\* count / total > 0.001  <=>  count * 1000 > total
is_empty_frame(img) ==
    LET total == img.h * img.w
        opaque == CountOpaque(img)
        transparent == CountClear(img)
        diff == CountDiffers(img, img.px[1])
    IN  IF opaque * 1000 > total /\ transparent * 2 > total THEN FALSE
        ELSE IF opaque * 1000 < total THEN TRUE
        ELSE diff * 1000 < total

cs == 3

\* numpy slices [:cs] and [-cs:] of an axis of length len
SliceHead(len) == 0..(Min(cs, len) - 1)

SliceTail(len) == Max(0, len - cs)..(len - 1)

RECURSIVE SumAlpha(_, _)
SumAlpha(img, cells) ==
    IF cells = {} THEN 0
    ELSE LET c == CHOOSE c \in cells : TRUE
         IN  PixelAt(img, c[1], c[2])[4] + SumAlpha(img, cells \ {c})

\* the four corner regions as sets of <<x, y>>
corner_regions(img) ==
    { SliceHead(img.w) \X SliceHead(img.h),
      SliceTail(img.w) \X SliceHead(img.h),
      SliceHead(img.w) \X SliceTail(img.h),
      SliceTail(img.w) \X SliceTail(img.h) }

\* np.mean(corner) > 10
CornerOpaque(img, corner) == SumAlpha(img, corner) > 10 * Cardinality(corner)

\* the overall ratio alone, the corners ignored
needs_background_removal_ratio(img) ==
    CountClear(img) * 10 < 4 * (img.h * img.w)

needs_background_removal(img) ==
    IF \E corner \in corner_regions(img) : CornerOpaque(img, corner) THEN TRUE
    ELSE IF CountClear(img) * 10 < 4 * (img.h * img.w) THEN TRUE
    ELSE FALSE

(***************************************************************************)
(* Collaborators: Segmenter (rembg) and Pillow                             *)
(***************************************************************************)
\* rembg.remove: same size, the background pixels cleared.  The model takes
\* the pixels of the top-left pixel's colour as the background.
Remove(img) ==
    [img EXCEPT !.px = [k \in 1..(img.w * img.h) |->
        IF img.px[k][1] = img.px[1][1] /\ img.px[k][2] = img.px[1][2]
           /\ img.px[k][3] = img.px[1][3]
        THEN Clear ELSE img.px[k]]]

\* img.resize((t, t), Image.LANCZOS): a t x t raster resampled from img
\* (the model samples the nearest source pixel)
Resize(img, t) ==
    [w |-> t, h |-> t,
     px |-> [k \in 1..(t * t) |->
                PixelAt(img, (((k - 1) % t) * img.w) \div t,
                             (((k - 1) \div t) * img.h) \div t)]]

\* Pillow's DIV255 and BLEND (ImagingPaste with an RGBA mask)
Div255(a) == LET t == a + 128 IN ((t \div 256) + t) \div 256

Blend(mask, dst, src) == Div255(dst * (255 - mask) + src * mask)

\* one pixel of sheet.paste(img, (x, y), img): every channel of the source,
\* alpha included, is mixed into the destination by the source's alpha
PastePixel(dst, src) ==
    <<Blend(src[4], dst[1], src[1]), Blend(src[4], dst[2], src[2]),
      Blend(src[4], dst[3], src[3]), Blend(src[4], dst[4], src[4])>>

\* sheet.paste(img, (x0, y0), img), clipped to the sheet
Paste(sh, img, x0, y0) ==
    [sh EXCEPT !.px = [k \in 1..(sh.w * sh.h) |->
        LET sx == (k - 1) % sh.w
            sy == (k - 1) \div sh.w
        IN  IF sx >= x0 /\ sx < x0 + img.w /\ sy >= y0 /\ sy < y0 + img.h
            THEN PastePixel(sh.px[k], PixelAt(img, sx - x0, sy - y0))
            ELSE sh.px[k]]]

(***************************************************************************)
(* SheetPacker                                                             *)
(***************************************************************************)
\* math.ceil(math.sqrt(n))
CeilSqrt(n) == CHOOSE c \in 0..n : c * c >= n /\ (c = 0 \/ (c - 1) * (c - 1) < n)

\* math.ceil(n / cols)
CeilDiv(n, c) == (n + c - 1) \div c

GridCols(colsArg, n) == IF colsArg = None THEN CeilSqrt(n) ELSE colsArg

\* the rows rounded down
GridRowsFloor(n, c) == n \div c

GridRows(n, c) == CeilDiv(n, c)

\* pixel offset of frame i (0-based) in the sheet
CellX(i, c, w) == (i % c) * w

CellY(i, c, h) == (i \div c) * h

\* the paste loop over images[i..], images being 1-based here
RECURSIVE PasteFrames(_, _, _, _, _, _)
PasteFrames(sh, imgs, c, w, h, i) ==
    IF i >= Len(imgs) THEN sh
    ELSE PasteFrames(Paste(sh, imgs[i + 1], CellX(i, c, w), CellY(i, c, h)),
                     imgs, c, w, h, i + 1)

\* the sheet of lines 207-219 for the frame sequence imgs
PackSheet(imgs, colsArg) ==
    LET w == imgs[1].w
        h == imgs[1].h
        n == Len(imgs)
        c == GridCols(colsArg, n)
        r == GridRows(n, c)
    IN  PasteFrames(ImageNew(c * w, r * h), imgs, c, w, h, 0)

(***************************************************************************)
(* Pipeline state                                                          *)
(***************************************************************************)
VARIABLES
    files,                  \* decoded frame_*.png files, in sorted order
    colsArg,                \* cols argument (None: automatic)
    remove_bg,              \* remove_bg argument
    target_size,            \* target_size argument (None: keep the size)
    rembg_installed,        \* whether "from rembg import ..." succeeds
    cpu_count,              \* os.cpu_count() (None: undetermined)
    pc,                     \* position of the main thread
    images,                 \* the list images (images[i] is images[i + 1] here)
    frames_needing_removal, \* 0-based indices, in index order
    frames_empty,           \* 0-based indices, in index order
    sessions,               \* number of new_session() calls so far
    num_workers,            \* max_workers of the pool (0: no pool)
    futures,                \* submitted index -> [st, arg, result]
    submitted,              \* number of executor.submit calls so far
    yielded,                \* indices whose future as_completed has yielded
    done,                   \* the counter done
    sheet,                  \* the sheet being composed
    output,                 \* <<>> or <<the image written to output_path>>
    ret,                    \* "none", "True", "False", or "raised"
    log                     \* printed lines

vars == <<files, colsArg, remove_bg, target_size, rembg_installed, cpu_count,
          pc, images, frames_needing_removal, frames_empty, sessions,
          num_workers, futures, submitted, yielded, done, sheet, output, ret, log>>

inputs == <<files, colsArg, remove_bg, target_size, rembg_installed, cpu_count>>

NoImage == [w |-> 0, h |-> 0, px |-> <<>>]

NoFutures == [i \in {} |-> <<>>]

Strip(pxs) == [w |-> Len(pxs), h |-> 1, px |-> pxs]

\* frame files of the pipeline runs
FrameSolid == Strip(<<Red, Red, Red, Red, Red, Red, Red>>)
FrameSprite == Strip(<<Clear, Clear, Clear, Red, Clear, Clear, Clear>>)
FrameBackdrop == Strip(<<Blue, Blue, Blue, Red, Blue, Blue, Blue>>)
FrameHazy == Strip(<<Red, Red, Haze, Blue, Blue, Red, Red>>)
FrameSmall == Strip(<<Red, Red>>)

Catalog == {FrameSolid, FrameSprite, FrameBackdrop, FrameHazy, FrameSmall}

ColsChoices == {None, 2}

TargetChoices == {None, 1}

CpuChoices == {None, 1, 2}

SeqsUpTo(S, n) == UNION {[1..k -> S] : k \in 0..n}

\* the state at the call of stitch_spritesheet
Fresh ==
    /\ pc = "start"
    /\ images = <<>>
    /\ frames_needing_removal = <<>>
    /\ frames_empty = <<>>
    /\ sessions = 0
    /\ num_workers = 0
    /\ futures = NoFutures
    /\ submitted = 0
    /\ yielded = {}
    /\ done = 0
    /\ sheet = NoImage
    /\ output = <<>>
    /\ ret = "none"
    /\ log = <<>>

Init ==
    /\ files \in SeqsUpTo(Catalog, MaxFrames)
    /\ colsArg \in ColsChoices
    /\ remove_bg \in BOOLEAN
    /\ target_size \in TargetChoices
    /\ rembg_installed \in BOOLEAN
    /\ cpu_count \in CpuChoices
    /\ Fresh

(***************************************************************************)
(* stitch_spritesheet                                                      *)
(***************************************************************************)
Indices(n) == [k \in 1..n |-> k - 1]

\* lines 156-159
Downscale(imgs, target) ==
    IF target # None /\ imgs[1].w > target
    THEN [k \in 1..Len(imgs) |-> Resize(imgs[k], target)]
    ELSE imgs

\* lines 147-161: load, "No frames found", downscale, the test of remove_bg
Load ==
    /\ pc = "start"
    /\ IF files = <<>>
       THEN /\ log' = Append(log, "Error: No frames found")
            /\ ret' = "False"
            /\ pc' = "done"
            /\ UNCHANGED images
       ELSE /\ images' = Downscale(files, target_size)
            /\ pc' = IF remove_bg THEN "import" ELSE "pack"
            /\ UNCHANGED <<log, ret>>
    /\ UNCHANGED <<inputs, frames_needing_removal, frames_empty, sessions,
                   num_workers, futures, submitted, yielded, done, sheet, output>>

\* the import without its handler: the ImportError leaves the function
ImportRembgUncaught ==
    /\ pc = "import"
    /\ IF rembg_installed
       THEN pc' = "classify" /\ UNCHANGED ret
       ELSE ret' = "raised" /\ pc' = "done"
    /\ UNCHANGED <<inputs, images, frames_needing_removal, frames_empty, sessions,
                   num_workers, futures, submitted, yielded, done, sheet, output, log>>

\* lines 162-163 and 204-205: the import, and its ImportError handler
ImportRembg ==
    /\ pc = "import"
    /\ IF rembg_installed
       THEN pc' = "classify" /\ UNCHANGED log
       ELSE /\ log' = Append(log, "Warning: rembg not installed")
            /\ pc' = "pack"
    /\ UNCHANGED <<inputs, images, frames_needing_removal, frames_empty, sessions,
                   num_workers, futures, submitted, yielded, done, sheet, output, ret>>

\* lines 166-172
EmptyIndices(imgs) ==
    SelectSeq(Indices(Len(imgs)), LAMBDA i : is_empty_frame(imgs[i + 1]))

NeedingIndices(imgs) ==
    SelectSeq(Indices(Len(imgs)),
              LAMBDA i : ~is_empty_frame(imgs[i + 1])
                         /\ needs_background_removal(imgs[i + 1]))

InSeq(x, s) == \E k \in 1..Len(s) : s[k] = x

\* lines 175-176
BlankEmpty(imgs, empties) ==
    [k \in 1..Len(imgs) |->
        IF InSeq(k - 1, empties) THEN ImageNew(imgs[k].w, imgs[k].h) ELSE imgs[k]]

\* lines 166-181 and 201-202: classification, blanking, the test of the list
Classify ==
    /\ pc = "classify"
    /\ frames_empty' = EmptyIndices(images)
    /\ frames_needing_removal' = NeedingIndices(images)
    /\ images' = BlankEmpty(images, frames_empty')
    /\ IF frames_needing_removal' # <<>>
       THEN pc' = "session" /\ UNCHANGED log
       ELSE /\ pc' = "pack"
            /\ log' = Append(log, "Backgrounds already transparent, skipping rembg")
    /\ UNCHANGED <<inputs, sessions, num_workers, futures, submitted, yielded,
                   done, sheet, output, ret>>

\* the "or 4" of line 189
FallbackWorkers == 4

\* a worker for every job
WorkersPerJob(jobs, cpus) == jobs

\* line 189: min(len(frames_needing_removal), os.cpu_count() or 4)
Workers(jobs, cpus) == Min(jobs, IF cpus # None THEN cpus ELSE FallbackWorkers)

\* a session for each worker of the pool
NewSessionPerWorker ==
    /\ pc = "session"
    /\ num_workers' = Workers(Len(frames_needing_removal), cpu_count)
    /\ sessions' = sessions + num_workers'
    /\ pc' = "submit"
    /\ UNCHANGED <<inputs, images, frames_needing_removal, frames_empty, futures,
                   submitted, yielded, done, sheet, output, ret, log>>

\* lines 182-191: the session, the pool size, the pool
NewSession ==
    /\ pc = "session"
    /\ sessions' = sessions + 1
    /\ num_workers' = Workers(Len(frames_needing_removal), cpu_count)
    /\ pc' = "submit"
    /\ UNCHANGED <<inputs, images, frames_needing_removal, frames_empty, futures,
                   submitted, yielded, done, sheet, output, ret, log>>

(***************************************************************************)
(* RemovalScheduler: ThreadPoolExecutor, process_frame, as_completed       *)
(***************************************************************************)
WithState(st) == {i \in DOMAIN futures : futures[i].st = st}

Finished == WithState("ok") \cup WithState("raised")

\* lines 192-193: one executor.submit(process_frame, (i, images[i]))
Submit ==
    /\ pc = "submit"
    /\ LET i == frames_needing_removal[submitted + 1]
       IN  futures' = futures @@
               (i :> [st |-> "pending", arg |-> <<i, images[i + 1]>>, result |-> <<>>])
    /\ submitted' = submitted + 1
    /\ pc' = IF submitted' = Len(frames_needing_removal) THEN "merge" ELSE "submit"
    /\ UNCHANGED <<inputs, images, frames_needing_removal, frames_empty, sessions,
                   num_workers, yielded, done, sheet, output, ret, log>>

\* the pool's queue is first in, first out
NextPending ==
    frames_needing_removal[
        CHOOSE k \in 1..Len(frames_needing_removal) :
            /\ frames_needing_removal[k] \in WithState("pending")
            /\ \A j \in 1..(k - 1) : frames_needing_removal[j] \notin WithState("pending")]

\* a free worker thread takes the next queued job
StartJob ==
    /\ WithState("pending") # {}
    /\ Cardinality(WithState("running")) < num_workers
    /\ futures' = [futures EXCEPT ![NextPending].st = "running"]
    /\ UNCHANGED <<inputs, pc, images, frames_needing_removal, frames_empty, sessions,
                   num_workers, submitted, yielded, done, sheet, output, ret, log>>

\* lines 185-187: process_frame returns (idx, remove(img, session=session))
process_frame(args) == <<args[1], Remove(args[2])>>

FinishJob ==
    /\ \E i \in WithState("running") :
          futures' = [futures EXCEPT ![i].st = "ok",
                                     ![i].result = process_frame(futures[i].arg)]
    /\ UNCHANGED <<inputs, pc, images, frames_needing_removal, frames_empty, sessions,
                   num_workers, submitted, yielded, done, sheet, output, ret, log>>

\* remove() raises inside the job: the future holds the exception
FailJob ==
    /\ \E i \in WithState("running") :
          futures' = [futures EXCEPT ![i].st = "raised"]
    /\ UNCHANGED <<inputs, pc, images, frames_needing_removal, frames_empty, sessions,
                   num_workers, submitted, yielded, done, sheet, output, ret, log>>

\* a result stored by its order of arrival
MergeSlotArrival(idx, arrival) == arrival

\* line 197: the position a result is stored at
MergeSlot(idx, arrival) == idx

\* the loop left after the first result
LoopEndsEarly(seen) == seen # {}

\* line 195: as_completed ends once every submitted future has been yielded
LoopEnds(seen) == seen = DOMAIN futures

\* lines 195-200: as_completed yields a finished future; its result is stored
\* and counted; after the last one the pool is left
Merge ==
    /\ pc = "merge"
    /\ \E i \in WithState("ok") \ yielded :
          LET idx == futures[i].result[1]
              result == futures[i].result[2]
          IN  /\ images' = [images EXCEPT ![MergeSlot(idx, done) + 1] = result]
              /\ yielded' = yielded \cup {i}
              /\ done' = done + 1
              /\ pc' = IF LoopEnds(yielded') THEN "pack" ELSE "merge"
    /\ UNCHANGED <<inputs, frames_needing_removal, frames_empty, sessions,
                   num_workers, futures, submitted, sheet, output, ret, log>>

\* line 196: future.result() re-raises the job's exception out of the loop
MergeRaises ==
    /\ pc = "merge"
    /\ \E i \in WithState("raised") \ yielded :
          yielded' = yielded \cup {i}
    /\ pc' = "unwind"
    /\ UNCHANGED <<inputs, images, frames_needing_removal, frames_empty, sessions,
                   num_workers, futures, submitted, done, sheet, output, ret, log>>

\* line 191: leaving the with block waits for every job (shutdown(wait=True));
\* lines 204-205 do not catch the exception, which leaves stitch_spritesheet
Unwind ==
    /\ pc = "unwind"
    /\ Finished = DOMAIN futures
    /\ ret' = "raised"
    /\ pc' = "done"
    /\ UNCHANGED <<inputs, images, frames_needing_removal, frames_empty, sessions,
                   num_workers, futures, submitted, yielded, done, sheet, output, log>>

(***************************************************************************)
(* Packing and saving                                                      *)
(***************************************************************************)
\* lines 207-219
Pack ==
    /\ pc = "pack"
    /\ sheet' = PackSheet(images, colsArg)
    /\ pc' = "save"
    /\ UNCHANGED <<inputs, images, frames_needing_removal, frames_empty, sessions,
                   num_workers, futures, submitted, yielded, done, output, ret, log>>

\* lines 221-224
Save ==
    /\ pc = "save"
    /\ output' = <<sheet>>
    /\ log' = Append(log, "Saved")
    /\ ret' = "True"
    /\ pc' = "done"
    /\ UNCHANGED <<inputs, images, frames_needing_removal, frames_empty, sessions,
                   num_workers, futures, submitted, yielded, done, sheet>>

Next ==
    \/ Load
    \/ ImportRembg
    \/ Classify
    \/ NewSession
    \/ Submit
    \/ StartJob
    \/ FinishJob
    \/ FailJob
    \/ Merge
    \/ MergeRaises
    \/ Unwind
    \/ Pack
    \/ Save

Spec == Init /\ [][Next]_vars

TypeOK ==
    /\ pc \in {"start", "import", "classify", "session", "submit", "merge",
               "unwind", "pack", "save", "done"}
    /\ ret \in {"none", "True", "False", "raised"}
    /\ Len(images) \in {0, Len(files)}

(***************************************************************************)
(* Properties of the pipeline (Spec)                                       *)
(***************************************************************************)
Loaded == Downscale(files, target_size)

Removing == remove_bg /\ rembg_installed /\ files # <<>>

\* the NeedsRemoval and Empty index lists of the run (empty when the
\* classification is not reached)
NeedsRemoval == IF Removing THEN NeedingIndices(Loaded) ELSE <<>>

EmptyFrames == IF Removing THEN EmptyIndices(Loaded) ELSE <<>>

\* the frame sequence a run without job failure hands to the packer
ExpectedFrames ==
    [k \in 1..Len(files) |->
        IF InSeq(k - 1, NeedsRemoval) THEN Remove(Loaded[k])
        ELSE IF InSeq(k - 1, EmptyFrames) THEN ImageNew(Loaded[k].w, Loaded[k].h)
        ELSE Loaded[k]]

\* C1: every merged removal result sits at the frame index its job was
\* submitted for, whatever the order of completion, and once the pool is left
\* without a failure the frame sequence is the one the inputs determine, in
\* index order 0..n-1.
C1_MergedByIndex ==
    /\ \A i \in yielded :
          futures[i].st = "ok" =>
              /\ futures[i].result[1] = i
              /\ images[i + 1] = Remove(Loaded[i + 1])
    /\ (pc \in {"pack", "save", "done"} /\ ret # "raised" /\ files # <<>>) =>
          (Len(images) = Len(files) /\ images = ExpectedFrames)

\* a result merged before the result of a job submitted earlier
C1_Witness ==
    \E i, j \in DOMAIN futures :
        /\ i < j
        /\ j \in yielded
        /\ i \notin yielded
        /\ images[j + 1] = Remove(Loaded[j + 1])
        /\ images[j + 1] # Loaded[j + 1]

\* C2: removal requested with rembg missing: the run returns True with the
\* warning as its only message besides "Saved", the frames keep their pixels,
\* and the sheet written is pixel for pixel the sheet a run without
\* remove_bg writes for the same frames.
C2_Unavailable ==
    /\ (pc = "done" /\ files # <<>> /\ ~remove_bg) =>
          output = <<PackSheet(Loaded, colsArg)>>
    /\ (pc = "done" /\ files # <<>> /\ remove_bg /\ ~rembg_installed) =>
          /\ ret = "True"
          /\ log = <<"Warning: rembg not installed", "Saved">>
          /\ images = Loaded
          /\ output = <<PackSheet(Loaded, colsArg)>>

\* the degraded run finished on frames the classifier would have changed
C2_Witness ==
    /\ pc = "done"
    /\ remove_bg
    /\ ~rembg_installed
    /\ ret = "True"
    /\ output # <<>>
    /\ NeedingIndices(Loaded) # <<>>
    /\ EmptyIndices(Loaded) # <<>>

\* C3: a job that raises fails its frame only: the run still saves the
\* sheet, the failed frame keeps its pixels, the other results are merged.
C3_FrameOnlyFailure ==
    (pc = "done" /\ WithState("raised") # {}) =>
        /\ ret = "True"
        /\ output # <<>>
        /\ \A i \in WithState("raised") : images[i + 1] = futures[i].arg[2]
        /\ \A i \in WithState("ok") : images[i + 1] = futures[i].result[2]

Mismatched == \E i, j \in 1..Len(files) : files[i].w # files[j].w \/ files[i].h # files[j].h

\* C6: frames of differing width or height abort the run with a failure
\* status and no sheet is written.
C6_MismatchAborts ==
    Mismatched => (output = <<>> /\ (pc = "done" => ret = "False"))

\* C9: at most one Segmenter session per run: one, made before any job is
\* submitted, when the NeedsRemoval list is non-empty; no session, no pool
\* and no job when the list is empty or removal is not performed.
C9_OneSession ==
    /\ sessions <= 1
    /\ DOMAIN futures # {} => sessions = 1
    /\ pc \in {"submit", "merge", "unwind"} => sessions = 1
    /\ NeedsRemoval = <<>> => (sessions = 0 /\ num_workers = 0 /\ futures = NoFutures)
    /\ pc = "done" => sessions = (IF NeedsRemoval # <<>> THEN 1 ELSE 0)

\* one session served several jobs, run by several workers
C9_Witness ==
    /\ pc = "done"
    /\ ret = "True"
    /\ sessions = 1
    /\ num_workers >= 2
    /\ Cardinality(WithState("ok")) >= 2

\* C10: packing and saving start only after every submitted job has
\* finished and been merged, and a run in which a job raised ends only
\* after every job has finished, with nothing written.
C10_Barrier ==
    /\ (pc \in {"pack", "save"} \/ output # <<>>) =>
          /\ submitted = Len(frames_needing_removal)
          /\ WithState("ok") = DOMAIN futures
          /\ yielded = DOMAIN futures
          /\ done = Len(frames_needing_removal)
    /\ WithState("raised") \cap yielded # {} => (sheet = NoImage /\ output = <<>>)
    /\ pc = "done" => Finished = DOMAIN futures

\* the sheet is packed after several jobs, run by several workers, were merged
C10_Witness ==
    /\ pc = "save"
    /\ Cardinality(DOMAIN futures) >= 2
    /\ num_workers >= 2
    /\ yielded = DOMAIN futures

(***************************************************************************)
(* SpecPack: packing without removal, n up to MaxPackFrames                *)
(***************************************************************************)
\* an opaque pixel that names frame i
Tag(i) == <<10 * (i + 1), 0, 0, 255>>

PackFills == {Clear, Blue, Haze}

\* frame i of a w x h run: its tag at the top left, fill elsewhere
TaggedFrame(i, w, h, fill) ==
    [w |-> w, h |-> h, px |-> [k \in 1..(w * h) |-> IF k = 1 THEN Tag(i) ELSE fill]]

InitPack ==
    /\ \E n \in 1..MaxPackFrames, w \in 1..MaxDim, h \in 1..MaxDim :
          \E fills \in [1..n -> PackFills] :
              files = [k \in 1..n |-> TaggedFrame(k - 1, w, h, fills[k])]
    /\ colsArg \in 0..MaxCols
    /\ remove_bg = FALSE
    /\ target_size = None
    /\ rembg_installed = FALSE
    /\ cpu_count = None
    /\ Fresh

NextPack ==
    \/ Load
    \/ Pack
    \/ Save

SpecPack == InitPack /\ [][NextPack]_vars

\* the w x h cell of the sheet at pixel offset (x0, y0)
Crop(sh, x0, y0, w, h) ==
    [w |-> w, h |-> h,
     px |-> [k \in 1..(w * h) |-> PixelAt(sh, x0 + ((k - 1) % w), y0 + ((k - 1) \div w))]]

\* C4: without removal, cutting the written sheet by the grid gives back
\* every frame, pixel for pixel.
C4_RoundTrip ==
    pc = "done" =>
        LET n == Len(files)
            w == files[1].w
            h == files[1].h
            c == output[1].w \div w
        IN  \A i \in 0..(n - 1) :
                Crop(output[1], (i % c) * w, (i \div c) * h, w, h) = files[i + 1]

\* the grid of the claim for n frames: columns, then rows
ClaimCols(n) ==
    IF colsArg = None
    THEN CHOOSE c \in 1..n : c * c >= n /\ (c - 1) * (c - 1) < n
    ELSE colsArg

ClaimRows(n) == CHOOSE r \in 1..n : r * ClaimCols(n) >= n /\ (r - 1) * ClaimCols(n) < n

\* C7: the sheet is columns x rows cells, rows = ceil(n / columns); frame i
\* is at cell (i % columns, i // columns), inside the canvas, no two frames
\* share a cell, and the cells from position n on are fully transparent
\* (n = 5 without cols: 3 x 2, frame 4 at (1, 1), cell (2, 1) transparent).
C7_Grid ==
    pc \in {"save", "done"} =>
        LET n == Len(files)
            w == files[1].w
            h == files[1].h
            c == ClaimCols(n)
            r == ClaimRows(n)
        IN  /\ sheet.w = c * w
            /\ sheet.h = r * h
            /\ \A i \in 0..(n - 1) :
                  /\ (i % c) * w + w <= sheet.w
                  /\ (i \div c) * h + h <= sheet.h
                  /\ PixelAt(sheet, (i % c) * w, (i \div c) * h) = Tag(i)
                  /\ \A j \in 0..(n - 1) :
                        i # j => <<i % c, i \div c>> # <<j % c, j \div c>>
            /\ \A k \in n..(c * r - 1) :
                  Crop(sheet, (k % c) * w, (k \div c) * h, w, h) = ImageNew(w, h)
            /\ (n = 5 /\ colsArg = None) =>
                  /\ c = 3
                  /\ r = 2
                  /\ PixelAt(sheet, w, h) = Tag(4)
                  /\ Crop(sheet, 2 * w, h, w, h) = ImageNew(w, h)

\* five frames packed automatically, the last row not full
C7_Witness ==
    /\ pc = "done"
    /\ Len(files) = 5
    /\ colsArg = None
    /\ sheet.w = 3 * files[1].w
    /\ sheet.h = 2 * files[1].h
    /\ files[1].w > 1

(***************************************************************************)
(* SpecClassify: every raster of at most MaxPixels pixels, classified      *)
(***************************************************************************)
Shapes == {s \in (1..MaxPixels) \X (1..MaxPixels) : s[1] * s[2] <= MaxPixels}

InitClassify ==
    /\ \E s \in Shapes :
          \E pxs \in [1..(s[1] * s[2]) -> Palette] :
              files = <<[w |-> s[1], h |-> s[2], px |-> pxs]>>
    /\ colsArg = None
    /\ remove_bg = TRUE
    /\ target_size = None
    /\ rembg_installed = TRUE
    /\ cpu_count = None
    /\ Fresh

NextClassify ==
    \/ Load
    \/ ImportRembg
    \/ Classify

SpecClassify == InitClassify /\ [][NextClassify]_vars

Classified == pc \in {"session", "pack"}

AnyCornerOpaque(img) == \E corner \in corner_regions(img) : CornerOpaque(img, corner)

\* C5 as stated: a corner sample of mean alpha > 10 always gives NeedsRemoval.
C5_CornerAlwaysNeedsRemoval ==
    Classified =>
        \A i \in 0..(Len(files) - 1) :
            AnyCornerOpaque(files[i + 1]) => InSeq(i, frames_needing_removal)

\* C5 amended: a frame the Empty test does not take, with a corner sample of
\* mean alpha > 10, is NeedsRemoval, never AlreadyTransparent, whatever its
\* ratio of transparent pixels; a frame the Empty test takes is Empty.
C5_CornerNeedsRemovalUnlessEmpty ==
    Classified =>
        \A i \in 0..(Len(files) - 1) :
            /\ InSeq(i, frames_empty) = is_empty_frame(files[i + 1])
            /\ ~(InSeq(i, frames_empty) /\ InSeq(i, frames_needing_removal))
            /\ (AnyCornerOpaque(files[i + 1]) /\ ~InSeq(i, frames_empty)) =>
                  InSeq(i, frames_needing_removal)

\* an opaque corner on a frame that is mostly transparent
C5_Witness ==
    /\ Classified
    /\ AnyCornerOpaque(files[1])
    /\ CountClear(files[1]) * 10 >= 6 * (files[1].w * files[1].h)
    /\ frames_needing_removal = <<0>>
    /\ frames_empty = <<>>

(***************************************************************************)
(* SpecWorkers: the pool size for 1..MaxJobs jobs and 0..MaxHw CPUs        *)
(***************************************************************************)
InitWorkers ==
    /\ \E n \in 1..MaxJobs : files = [k \in 1..n |-> FrameBackdrop]
    /\ colsArg = None
    /\ remove_bg = TRUE
    /\ target_size = None
    /\ rembg_installed = TRUE
    /\ cpu_count \in 0..MaxHw
    /\ Fresh

NextWorkers ==
    \/ Load
    \/ ImportRembg
    \/ Classify
    \/ NewSession

SpecWorkers == InitWorkers /\ [][NextWorkers]_vars

\* section 9 of the specification: "default worker cap 4"
WorkerCap == FallbackWorkers

Jobs == Len(frames_needing_removal)

====
